---- MODULE Spec2Model ----
(***************************************************************************)
(* Model of create_package.py: the packager that zips the allow-listed     *)
(* files of build/ into chatgpt-extension-v{version}.zip next to the       *)
(* program, checks the archive against the 100 MB limit and lists it.      *)
(*                                                                         *)
(* Strings are tuples of one-character strings, so that Path.name, the     *)
(* substring test, relative_to, the f-string and sorted() are computed.    *)
(***************************************************************************)
EXTENDS Integers, Sequences, FiniteSets, TLC

VARIABLES
    parentDir,      \* Path(__file__).parent, as a string
    buildExists,    \* whether parentDir/build exists
    buildAccess,    \* "ok"; "nostat": stat() of build/ itself is denied (a
                    \* symlink into a directory that cannot be searched);
                    \* "unsearchable": stat() of every entry of build/ is denied
    tree,           \* files under build/ in os.walk order, relative paths
    dirs,           \* directories under build/ (empty ones and symlinks to
                    \* directories included), relative paths
    manifestData,   \* what build/manifest.json holds
    unreadable,     \* files of build/ that cannot be read -> how: "denied"
                    \* (open() raises), "dangling" (a symlink to nothing:
                    \* exists() is False, stat() raises), "nostat" (a symlink
                    \* into a directory that cannot be searched: stat() is
                    \* denied) or "ioerror" (read() raises after open())
    parentWritable, \* whether entries of parentDir can be created and deleted
    packedBytes,    \* st_size of the archive holding every selected file
    disk,           \* archive paths next to the program -> what is there
    run,            \* number of the current invocation of the program
    pc,             \* position of the current invocation
    version,        \* local `version`, <<>> while unbound
    package_name,   \* local `package_name`, <<>> while unbound
    file_count,     \* local `file_count`, -1 while unbound
    result,         \* "running", "True", "False" or "raised"
    wrote,          \* the try block of lines 67-91 ended without exception
    displayed,      \* names printed by the content listing, in order
    remainder,      \* N of "... and N more files", 0 when not printed
    exitCode,       \* status of the process, -1 while it runs
    history,        \* one record per finished invocation
    disk0           \* the disk when the first invocation started

vars == <<parentDir, buildExists, buildAccess, tree, dirs, manifestData, unreadable, parentWritable,
          packedBytes, disk, run, pc, version, package_name, file_count, result,
          wrote,
          displayed, remainder, exitCode, history, disk0>>

env == <<parentDir, buildExists, buildAccess, tree, dirs, manifestData, unreadable, parentWritable,
         packedBytes, disk0>>

-----------------------------------------------------------------------------
(* Bounds *)

MaxRuns == 2        \* invocations of the program in one behaviour
ListExtra == 1      \* the largest tree has ListLimit + ListExtra entries
MaxFaultPos == 3    \* an unreadable file is among the first MaxFaultPos walked

(* Program constants *)

ListLimit == 20     \* files[:20] and len(files) - 20
SizeLimitMB == 100  \* size_mb > 100

BytesPerMB == 1024 * 1024
SizeLimitBytes == SizeLimitMB * BytesPerMB

-----------------------------------------------------------------------------
(* String literals *)

MANIFEST_JSON == <<"m","a","n","i","f","e","s","t",".","j","s","o","n">>
CONTROLLER_JS == <<"c","h","a","t","g","p","t","-","c","o","n","t","r","o","l","l","e","r",".","j","s">>
SERVICE_WORKER_JS == <<"s","e","r","v","i","c","e","-","w","o","r","k","e","r",".","j","s">>
POPUP_HTML == <<"p","o","p","u","p",".","h","t","m","l">>
ASSETS_SLASH == <<"a","s","s","e","t","s","/">>
BUILD == <<"b","u","i","l","d">>
SLASH == <<"/">>
PackagePrefix == <<"c","h","a","t","g","p","t","-","e","x","t","e","n","s","i","o","n","-","v">>
PackageSuffix == <<".","z","i","p">>
DefaultVersion == <<"1",".","0",".","0">>
Version210 == <<"2",".","1",".","0">>

README_MD == <<"R","E","A","D","M","E",".","m","d">>
ASSETS_ICON == <<"a","s","s","e","t","s","/","i","c","o","n",".","p","n","g">>
SRC_UI_POPUP == <<"s","r","c","/","u","i","/","p","o","p","u","p",".","h","t","m","l">>
SRC_NOTES == <<"s","r","c","/","n","o","t","e","s",".","t","x","t">>
UNRELATED_X == <<"u","n","r","e","l","a","t","e","d","_","a","s","s","e","t","s","/","x">>
OLD_JS == <<"o","l","d",".","j","s">>
OptExt == <<"/","o","p","t","/","e","x","t">>
SrvAssetsExt == <<"/","s","r","v","/","a","s","s","e","t","s","/","e","x","t">>

\* ord(c) for the characters file names and versions are written in here;
\* Python compares strings by code point.
Digits == <<"0","1","2","3","4","5","6","7","8","9">>
Upper == <<"A","B","C","D","E","F","G","H","I","J","K","L","M","N","O","P",
           "Q","R","S","T","U","V","W","X","Y","Z">>
Lower == <<"a","b","c","d","e","f","g","h","i","j","k","l","m","n","o","p",
           "q","r","s","t","u","v","w","x","y","z">>

IndexOf(c, table) == CHOOSE k \in 1..Len(table) : table[k] = c
InTable(c, table) == \E k \in 1..Len(table) : table[k] = c

Ord(c) ==
    IF InTable(c, Lower) THEN 96 + IndexOf(c, Lower)
    ELSE IF InTable(c, Upper) THEN 64 + IndexOf(c, Upper)
    ELSE IF InTable(c, Digits) THEN 47 + IndexOf(c, Digits)
    ELSE IF c = "-" THEN 45
    ELSE IF c = "." THEN 46
    ELSE IF c = "/" THEN 47
    ELSE IF c = "_" THEN 95
    ELSE 32

-----------------------------------------------------------------------------
(* Pure helpers of the program and of the libraries it calls *)

\* needle in hay (Python's substring test on str)
Contains(needle, hay) ==
    \E i \in 0..(Len(hay) - Len(needle)) :
        \A j \in 1..Len(needle) : hay[i + j] = needle[j]

\* Path(p).name: the text after the last "/"
PathName(p) ==
    LET cuts == {i \in 1..Len(p) : p[i] = "/"}
        last == IF cuts = {} THEN 0 ELSE CHOOSE i \in cuts : \A j \in cuts : j <= i
    IN  SubSeq(p, last + 1, Len(p))

\* a / b on Path objects, as a string
PathJoin(a, b) == a \o SLASH \o b

\* build_dir = Path(__file__).parent / "build"
BuildDir(parent) == PathJoin(parent, BUILD)

\* file_path.relative_to(build_dir)
RelativeTo(p, base) == SubSeq(p, Len(base) + 2, Len(p))

essential_files == {MANIFEST_JSON, CONTROLLER_JS, SERVICE_WORKER_JS, POPUP_HTML}

is_essential(file_path) ==
    \/ PathName(file_path) \in essential_files
    \/ Contains(ASSETS_SLASH, file_path)

\* a < b on str: lexicographic by code point, a proper prefix is smaller
StrLess(a, b) ==
    \/ /\ Len(a) < Len(b)
       /\ \A j \in 1..Len(a) : a[j] = b[j]
    \/ \E i \in 1..(IF Len(a) < Len(b) THEN Len(a) ELSE Len(b)) :
          /\ \A j \in 1..(i - 1) : a[j] = b[j]
          /\ Ord(a[i]) < Ord(b[i])

RECURSIVE InsertSorted(_, _)
InsertSorted(x, s) ==
    IF s = <<>> THEN <<x>>
    ELSE IF StrLess(x, Head(s)) THEN <<x>> \o s
    ELSE <<Head(s)>> \o InsertSorted(x, Tail(s))

\* sorted(s): stable, ascending
RECURSIVE Sorted(_)
Sorted(s) ==
    IF s = <<>> THEN <<>>
    ELSE InsertSorted(s[Len(s)], Sorted(SubSeq(s, 1, Len(s) - 1)))

\* s[:n]
Take(s, n) == SubSeq(s, 1, IF Len(s) < n THEN Len(s) ELSE n)

\* manifest.get(key, default) on a parsed JSON object
DictGet(d, key, default) == IF key \in DOMAIN d THEN d[key] ELSE default

\* f"chatgpt-extension-v{version}.zip"
PackageName_fixed(v) == PackagePrefix \o DefaultVersion \o PackageSuffix
PackageName(v) == PackagePrefix \o v \o PackageSuffix

\* size_mb > 100 with size_mb = st_size / (1024 * 1024)
OverLimit_ge(bytes) == bytes >= SizeLimitMB * BytesPerMB
OverLimit(bytes) == bytes > SizeLimitMB * BytesPerMB

\* sys.exit(0 if success else 1); an uncaught exception ends the process with 1
ExitStatus(r) == IF r = "True" THEN 0 ELSE 1

-----------------------------------------------------------------------------
(* The filesystem *)

NoFile == [kind |-> "none"]
Dir == [kind |-> "dir"]
Zip(entries) == [kind |-> "zip", entries |-> entries]
\* a symlink into a directory that cannot be searched
NoStat == [kind |-> "nostat"]

KnownVersions == {DefaultVersion, Version210}
DiskNames == {PackagePrefix \o v \o PackageSuffix : v \in KnownVersions}

\* Path.stat() raises ENOENT inside exists(): a file or directory is there
Present(d, n) == d[n].kind # "none"

\* package_path.exists(): "True", "False", or "raises" when stat() is
\* denied (PermissionError is not among the errors exists() ignores)
Exists(d, n) ==
    IF d[n].kind = "nostat" THEN "raises"
    ELSE IF Present(d, n) THEN "True" ELSE "False"

\* Path.unlink(): raises on a directory and in a directory that is not writable
UnlinkRaises_always(d, n, writable) == TRUE
UnlinkRaises(d, n, writable) == d[n].kind = "dir" \/ ~writable
Unlink_keep(d, n) == d
Unlink(d, n) == [d EXCEPT ![n] = NoFile]

\* zipfile.ZipFile(path, 'w'): raises when the file cannot be created
OpenRaises(d, n, writable) ==
    d[n].kind \in {"dir", "nostat"} \/ (d[n].kind = "none" /\ ~writable)


\* how reading the file at relative path p fails, "ok" when it does not
FaultOf(bad, p) == IF p \in DOMAIN bad THEN bad[p] ELSE "ok"

\* the with-block of lines 68-91 once the archive is open: os.walk over the
\* build directory, writing the selected files in walk order.  zipf.write
\* raises before the entry is started when stat() or open() fails, and after
\* it was started when read() fails: the entry then stays in the archive,
\* cut short, and file_count is not incremented.  Leaving the with-block
\* closes the archive over the entries it holds.
RECURSIVE WalkFiles(_, _, _, _, _)
WalkFiles(files, i, build_dir, bad, zip) ==
    IF i > Len(files) THEN zip
    ELSE LET file_path == PathJoin(build_dir, files[i])
             rel_path == RelativeTo(file_path, build_dir)
         IN  IF ~is_essential(file_path)
                 THEN WalkFiles(files, i + 1, build_dir, bad, zip)
             ELSE IF FaultOf(bad, files[i]) \in {"denied", "dangling", "nostat"}
                 THEN [zip EXCEPT !.raised = TRUE]
             ELSE IF FaultOf(bad, files[i]) = "ioerror"
                 THEN [zip EXCEPT !.entries = Append(@, rel_path),
                                  !.raised = TRUE]
             ELSE WalkFiles(files, i + 1, build_dir, bad,
                            [zip EXCEPT !.entries = Append(@, rel_path),
                                        !.file_count = @ + 1])

\* zipfile.ZipFile(path, 'w') and file_count = 0
EmptyZip == [entries |-> <<>>, file_count |-> 0, raised |-> FALSE]

-----------------------------------------------------------------------------
(* The inputs: where the program lives and what is on disk *)

ExampleTree == <<MANIFEST_JSON, CONTROLLER_JS, SERVICE_WORKER_JS, POPUP_HTML,
                 README_MD, ASSETS_ICON>>
NestedTree == <<README_MD, MANIFEST_JSON, SRC_NOTES, SRC_UI_POPUP, UNRELATED_X>>
NoManifestTree == <<README_MD, POPUP_HTML>>
\* manifest.json is a directory
ManifestDirTree == <<README_MD, POPUP_HTML, MANIFEST_JSON \o SLASH \o <<"x">> >>
\* manifest.json and n files assets/<letter>, walked in descending order
AssetTree(n) ==
    <<MANIFEST_JSON>> \o [i \in 1..n |-> ASSETS_SLASH \o <<Lower[n + 1 - i]>>]

Trees == {ExampleTree, NestedTree, NoManifestTree, ManifestDirTree}
         \cup {AssetTree(n) : n \in {ListLimit - 1, ListLimit - 1 + ListExtra}}

ParentDirs == {OptExt, SrvAssetsExt}

NoManifest == [kind |-> "absent"]
ManifestChoices ==
    { [kind |-> "invalid"],                              \* not JSON
      [kind |-> "array"],                                \* JSON, not an object
      [kind |-> "object", fields |-> <<>>],              \* {}
      [kind |-> "object", fields |-> [version |-> Version210]] }

PriorChoices == {NoFile, Dir, NoStat, Zip(<<OLD_JS>>)}

SizeChoices == {SizeLimitBytes - 1, SizeLimitBytes, SizeLimitBytes + 1}

HasFile(files, rel) == \E i \in 1..Len(files) : files[i] = rel

\* the directories the files of a tree lie in
DirsOf(files) ==
    UNION {{SubSeq(files[i], 1, k - 1) :
                k \in {j \in 1..Len(files[i]) : files[i][j] = "/"}} :
           i \in 1..Len(files)}

\* the directories a build/ with these files can hold: those of its files
\* and, when no file is named manifest.json, possibly a directory (or a
\* symlink to one) of that name with nothing under it
DirChoices(files) ==
    {DirsOf(files)}
    \cup (IF HasFile(files, MANIFEST_JSON) THEN {}
                                           ELSE {DirsOf(files) \cup {MANIFEST_JSON}})

\* build_dir.exists(): "True", "False", or "raises" when stat() is denied
BuildDirExists(exists, access) ==
    IF access = "nostat" THEN "raises"
    ELSE IF exists THEN "True" ELSE "False"

\* (build_dir / rel).exists(): follows symlinks, "True" of files and
\* directories, "False" when nothing is there, and "raises" when stat() is
\* denied (PermissionError is not among the errors exists() ignores)
PathExists(files, ds, bad, access, rel) ==
    IF access = "unsearchable" \/ FaultOf(bad, rel) = "nostat" THEN "raises"
    ELSE IF \/ HasFile(files, rel) /\ FaultOf(bad, rel) # "dangling"
            \/ rel \in ds
         THEN "True"
    ELSE "False"

FaultKinds == {"denied", "dangling", "nostat", "ioerror"}
AccessChoices == {"ok", "nostat", "unsearchable"}

FaultChoices(files) ==
    {<<>>} \cup {[p \in {files[i]} |-> k] :
                    i \in {n \in 1..Len(files) : n <= MaxFaultPos}, k \in FaultKinds}

Init ==
    /\ parentDir \in ParentDirs
    /\ buildExists \in BOOLEAN
    /\ buildAccess \in (IF buildExists THEN AccessChoices ELSE {"ok"})
    /\ tree \in (IF buildExists THEN Trees ELSE {<<>>})
    /\ dirs \in (IF buildExists THEN DirChoices(tree) ELSE {{}})
    /\ manifestData \in (IF HasFile(tree, MANIFEST_JSON) THEN ManifestChoices
                                                         ELSE {NoManifest})
    /\ unreadable \in (IF buildAccess = "ok" THEN FaultChoices(tree) ELSE {<<>>})
    /\ parentWritable \in BOOLEAN
    /\ packedBytes \in SizeChoices
    /\ disk \in [DiskNames -> PriorChoices]
    /\ disk0 = disk
    /\ run = 1
    /\ pc = "check_build"
    /\ version = <<>>
    /\ package_name = <<>>
    /\ file_count = -1
    /\ result = "running"
    /\ wrote = FALSE
    /\ displayed = <<>>
    /\ remainder = 0
    /\ exitCode = -1
    /\ history = <<>>

-----------------------------------------------------------------------------
(* create_extension_package, one action per step *)

Return(r) == /\ result' = r
             /\ pc' = "returned"

\* an exception raised outside every try block leaves the function
Raise == /\ result' = "raised"
         /\ pc' = "raised"

\* the check of build/ with the old package removed before it
CheckBuildDir_unlinkFirst ==
    /\ pc = "check_build"
    /\ disk' = Unlink(disk, PackageName(DefaultVersion))
    /\ LET found == BuildDirExists(buildExists, buildAccess)
       IN  IF found = "raises" THEN Raise
           ELSE IF found = "False" THEN Return("False")
           ELSE pc' = "check_manifest" /\ UNCHANGED result
    /\ UNCHANGED <<env, run, version, package_name, file_count, wrote,
                   displayed, remainder, exitCode, history>>

\* lines 15-18: exists() is outside every try block
CheckBuildDir ==
    /\ pc = "check_build"
    /\ LET found == BuildDirExists(buildExists, buildAccess)
       IN  IF found = "raises" THEN Raise
           ELSE IF found = "False" THEN Return("False")
           ELSE pc' = "check_manifest" /\ UNCHANGED result
    /\ UNCHANGED <<env, disk, run, version, package_name, file_count, wrote,
                   displayed, remainder, exitCode, history>>

\* lines 21-24: exists() is outside every try block
CheckManifest ==
    /\ pc = "check_manifest"
    /\ LET found == PathExists(tree, dirs, unreadable, buildAccess, MANIFEST_JSON)
       IN  IF found = "raises" THEN Raise
           ELSE IF found = "False" THEN Return("False")
           ELSE pc' = "read_manifest" /\ UNCHANGED result
    /\ UNCHANGED <<env, disk, run, version, package_name, file_count, wrote,
                   displayed, remainder, exitCode, history>>

\* lines 26-34: open() raises on a directory and on a file it is denied,
\* f.read() inside json.load on an I/O error, json.load on text that
\* is not JSON, manifest.get on a value that is not an object
ReadManifest ==
    /\ pc = "read_manifest"
    /\ IF \/ ~HasFile(tree, MANIFEST_JSON)
          \/ FaultOf(unreadable, MANIFEST_JSON) # "ok"
          \/ manifestData.kind # "object"
          THEN Return("False") /\ UNCHANGED version
          ELSE /\ version' = DictGet(manifestData.fields, "version", DefaultVersion)
               /\ pc' = "remove_existing"
               /\ UNCHANGED result
    /\ UNCHANGED <<env, disk, run, package_name, file_count, wrote,
                   displayed, remainder, exitCode, history>>

\* lines 37-43: outside any try block, so an error of exists() or unlink()
\* leaves the function as an exception
RemoveExisting ==
    /\ pc = "remove_existing"
    /\ package_name' = PackageName(version)
    /\ LET found == Exists(disk, package_name')
       IN  IF found = "raises"
              THEN Raise /\ UNCHANGED disk
           ELSE IF found = "True"
              THEN IF UnlinkRaises(disk, package_name', parentWritable)
                      THEN Raise /\ UNCHANGED disk
                      ELSE /\ disk' = Unlink(disk, package_name')
                           /\ pc' = "write_zip"
                           /\ UNCHANGED result
           ELSE /\ pc' = "write_zip"
                /\ UNCHANGED <<disk, result>>
    /\ UNCHANGED <<env, run, version, file_count, wrote,
                   displayed, remainder, exitCode, history>>

\* lines 67-95
WriteZip ==
    /\ pc = "write_zip"
    /\ IF OpenRaises(disk, package_name, parentWritable)
          THEN /\ Return("False")
               /\ UNCHANGED <<disk, file_count, wrote>>
          ELSE LET zip == WalkFiles(tree, 1, BuildDir(parentDir), unreadable, EmptyZip)
               IN  /\ disk' = [disk EXCEPT ![package_name] = Zip(zip.entries)]
                   /\ file_count' = zip.file_count
                   /\ wrote' = ~zip.raised
                   /\ IF zip.raised
                         THEN Return("False")
                         ELSE pc' = "verify" /\ UNCHANGED result
    /\ UNCHANGED <<env, run, version, package_name,
                   displayed, remainder, exitCode, history>>

\* lines 98-108 and 130-132: the path holds the archive just written, so
\* exists() and stat() find it
VerifyPackage ==
    /\ pc = "verify"
    /\ IF Exists(disk, package_name) = "True"
          THEN IF OverLimit(packedBytes)
                  THEN Return("False")
                  ELSE pc' = "list" /\ UNCHANGED result
          ELSE Return("False")
    /\ UNCHANGED <<env, disk, run, version, package_name, file_count, wrote,
                   displayed, remainder, exitCode, history>>

\* lines 111-129
ListContents ==
    /\ pc = "list"
    /\ LET files == disk[package_name].entries
       IN  /\ displayed' = Sorted(Take(files, ListLimit))
           /\ remainder' = IF Len(files) > ListLimit THEN Len(files) - ListLimit ELSE 0
    /\ Return("True")
    /\ UNCHANGED <<env, disk, run, version, package_name, file_count, wrote,
                   exitCode, history>>

\* lines 134-136, and the interpreter's exit on an uncaught exception
Exit ==
    /\ pc \in {"returned", "raised"}
    /\ exitCode' = ExitStatus(result)
    /\ pc' = "exited"
    /\ history' = Append(history,
                         [result |-> result,
                          archive |-> IF package_name = <<>> THEN NoFile
                                      ELSE disk[package_name],
                          file_count |-> IF wrote THEN file_count ELSE -1])
    /\ UNCHANGED <<env, disk, run, version, package_name, file_count, result,
                   wrote, displayed, remainder>>

\* the program is started again on the same disk
Rerun ==
    /\ pc = "exited"
    /\ run < MaxRuns
    /\ run' = run + 1
    /\ pc' = "check_build"
    /\ version' = <<>>
    /\ package_name' = <<>>
    /\ file_count' = -1
    /\ result' = "running"
    /\ wrote' = FALSE
    /\ displayed' = <<>>
    /\ remainder' = 0
    /\ exitCode' = -1
    /\ UNCHANGED <<env, disk, history>>

Next ==
    \/ CheckBuildDir
    \/ CheckManifest
    \/ ReadManifest
    \/ RemoveExisting
    \/ WriteZip
    \/ VerifyPackage
    \/ ListContents
    \/ Exit
    \/ Rerun

Spec == Init /\ [][Next]_vars

-----------------------------------------------------------------------------
(* Vocabulary of the properties *)

Succeeded == pc = "returned" /\ result = "True"

\* the archive path for the version the manifest states, <<>> when the
\* manifest cannot be read as an object
ManifestTarget ==
    IF /\ manifestData.kind = "object"
       /\ MANIFEST_JSON \notin DOMAIN unreadable
       /\ buildAccess = "ok"
        THEN PackagePrefix
             \o (IF "version" \in DOMAIN manifestData.fields
                    THEN manifestData.fields.version ELSE DefaultVersion)
             \o PackageSuffix
        ELSE <<>>

\* the files of the tree the walk selects, by their paths relative to build/
SelectedFiles ==
    {tree[i] : i \in {k \in 1..Len(tree) :
                        is_essential(PathJoin(BuildDir(parentDir), tree[k]))}}

EntrySet(n) == {disk[n].entries[i] : i \in 1..Len(disk[n].entries)}

\* nothing stops this run from writing every selected file into the archive
CanWriteArchive ==
    /\ buildExists
    /\ buildAccess = "ok"
    /\ HasFile(tree, MANIFEST_JSON)
    /\ ManifestTarget # <<>>
    /\ parentWritable
    /\ disk0[ManifestTarget].kind \notin {"dir", "nostat"}
    /\ SelectedFiles \cap DOMAIN unreadable = {}

-----------------------------------------------------------------------------
(* C1: after a successful run every file of the build tree with an         *)
(* essential filename is an archive entry, and every file that has no      *)
(* essential filename and no 'assets/' in its path relative to build/ is   *)
(* not an entry, wherever the program's directory is.                      *)
C1_SelectionByRelativePath ==
    Succeeded =>
        \A i \in 1..Len(tree) :
            /\ PathName(tree[i]) \in essential_files
                   => tree[i] \in EntrySet(package_name)
            /\ (PathName(tree[i]) \notin essential_files
                    /\ ~Contains(ASSETS_SLASH, tree[i]))
                   => tree[i] \notin EntrySet(package_name)

(* C2: when the function returns False, the target archive is absent or    *)
(* holds every selected file and was rejected for its size; an error while *)
(* writing a file never leaves an archive with only part of the files.     *)
C2_NoTruncatedArchive ==
    (pc = "returned" /\ result = "False" /\ package_name # <<>>) =>
        \/ disk[package_name].kind = "none"
        \/ /\ disk[package_name].kind = "zip"
           /\ EntrySet(package_name) = SelectedFiles
           /\ wrote
           /\ packedBytes > SizeLimitBytes

(* C3: no exception leaves create_extension_package; every error becomes   *)
(* a boolean result.                                                       *)
C3_NoExceptionEscapes == pc # "raised" /\ result # "raised"

(* C4: the process exits 0 exactly when the archive was written without    *)
(* error and is at most 100 * 1024 * 1024 bytes; otherwise it exits 1, and *)
(* an over-limit archive is still on disk.                                 *)
C4_ExitCode ==
    pc = "exited" =>
        /\ exitCode \in {0, 1}
        /\ exitCode = 0 <=> (CanWriteArchive /\ packedBytes <= 100 * 1024 * 1024)
        /\ wrote <=> CanWriteArchive
        /\ (CanWriteArchive /\ packedBytes > 100 * 1024 * 1024)
               => /\ disk[ManifestTarget].kind = "zip"
                  /\ EntrySet(ManifestTarget) = SelectedFiles

C4_Witness ==
    /\ pc = "exited"
    /\ exitCode = 1
    /\ wrote
    /\ packedBytes > SizeLimitBytes
    /\ disk[package_name].kind = "zip"

(* C5: a file at the target path is deleted before the new archive is      *)
(* opened, and after a successful run the archive's entries are exactly    *)
(* the files selected from the build tree, none from the prior archive.    *)
C5_FreshArchive ==
    /\ pc = "write_zip" => disk[package_name].kind = "none"
    /\ Succeeded => /\ disk[package_name].kind = "zip"
                    /\ EntrySet(package_name) = SelectedFiles
                    /\ Len(disk[package_name].entries) = Cardinality(SelectedFiles)
                    /\ OLD_JS \notin EntrySet(package_name)

C5_Witness ==
    /\ Succeeded
    /\ run = 1
    /\ disk0[package_name] = Zip(<<OLD_JS>>)
    /\ disk[package_name] # disk0[package_name]

(* C6: every invocation on the same unchanged build directory ends with    *)
(* the same result, the same archive entries and the same file count as    *)
(* the one before it.                                                      *)
C6_SameOutcomeOnRerun ==
    \A i \in 1..Len(history) : \A j \in 1..Len(history) :
        /\ history[i].result = history[j].result
        /\ history[i].archive = history[j].archive
        /\ history[i].file_count = history[j].file_count

C6_Witness ==
    /\ Len(history) >= 2
    /\ history[1].result = "True"
    /\ history[2].file_count > 1
    /\ disk0[ManifestTarget].kind = "none"

(* C7: with no build directory the function returns False and nothing on   *)
(* disk is created or deleted, archives of earlier runs included.          *)
C7_MissingBuildDir ==
    ~buildExists =>
        /\ disk = disk0
        /\ pc \in {"check_build", "returned", "exited"}
        /\ pc \in {"returned", "exited"} => result = "False"
        /\ pc = "exited" => exitCode = 1

C7_Witness ==
    /\ ~buildExists
    /\ pc = "exited"
    /\ run = 2
    /\ \E n \in DiskNames : disk[n].kind = "zip"

(* C8: with a build directory that has no manifest.json (neither a file    *)
(* nor a directory of that name in build/) the function returns False      *)
(* before the packaging step: no archive is created and none is deleted.   *)
C8_MissingManifest ==
    (/\ buildExists
     /\ buildAccess # "nostat"
     /\ ~HasFile(tree, MANIFEST_JSON)
     /\ MANIFEST_JSON \notin dirs) =>
        /\ disk = disk0
        /\ pc \in {"check_build", "check_manifest", "returned", "exited"}
        /\ pc \in {"returned", "exited"} => result = "False"

(* C9: a successful run displays the first 20 names of the sorted entry    *)
(* list (all when there are at most 20) and a remainder of the number of   *)
(* entries minus 20 when there are more.                                   *)
C9_ListsSmallestTwenty ==
    Succeeded =>
        LET names == disk[package_name].entries
        IN  /\ displayed = Take(Sorted(names), 20)
            /\ remainder = IF Len(names) > 20 THEN Len(names) - 20 ELSE 0

(* C10: a step changes no path other than the archive named for the        *)
(* manifest's version; the build tree and the manifest are never changed,  *)
(* and with a manifest that cannot be read nothing on disk changes.        *)
C10_FrameStep ==
    /\ tree' = tree
    /\ buildExists' = buildExists
    /\ buildAccess' = buildAccess
    /\ dirs' = dirs
    /\ manifestData' = manifestData
    /\ unreadable' = unreadable
    /\ \A n \in DiskNames : n # ManifestTarget => disk'[n] = disk[n]

C10_OnlyTargetChanges == [][C10_FrameStep]_vars

C10_Witness ==
    /\ pc = "exited"
    /\ ManifestTarget = PackagePrefix \o Version210 \o PackageSuffix
    /\ disk[ManifestTarget] # disk0[ManifestTarget]
    /\ \E n \in DiskNames : n # ManifestTarget /\ disk[n].kind = "zip"

====
